---------------------------- MODULE Spec2Model ----------------------------
(***************************************************************************)
(* Model of packages/pdf-create/pdf-bleed.py: the book PDF builder.        *)
(*                                                                         *)
(* Lengths in cm are kept in millimetres (19.0cm = 190), so that every     *)
(* preset of the command line is an integer.  Colour channels are          *)
(* rationals: a colour is [r, g, b, den] and stands for (r/den, g/den,     *)
(* b/den).  Page rectangles of the text fitter are in whole points; the   *)
(* comparisons involving 0.7, 0.85, 1.35 and 0.3 are cross-multiplied, so  *)
(* that they are exact.                                                    *)
(***************************************************************************)
EXTENDS Integers, Sequences, FiniteSets, TLC

(***************************************************************************)
(* Bounds of the model.                                                    *)
(***************************************************************************)
MaxScenes == 3      \* scenes of a manifest / images of the legacy folder
ColorScale == 4     \* a sampled channel is one of 0/ColorScale .. ColorScale/ColorScale
MaxParas == 2       \* paragraphs of a text block
MaxWords == 2       \* words of a paragraph

(***************************************************************************)
(* Program constants.                                                      *)
(***************************************************************************)
max_workers == 4            \* ThreadPoolExecutor(max_workers=4)
base_font_size == 26        \* wrap_and_draw_text default
FontFloor == 14             \* "font_size < 14" in the fitting loop
FontStep == 2               \* "font_size -= 2"
DefaultTrim == 190          \* trim_width_cm = trim_height_cm = 19.0

NoneVal == 0 - 1            \* an argument that was not given (Python None)

\* Lines 18-19.
BuiltinFont == "Helvetica"

FONT_FALLBACK == "ShantellSans-Regular"

VARIABLES
    FONT_PRIMARY,       \* font of the text pages, settled by lines 18-26
    args,               \* parsed command line (argparse namespace)
    book_data,          \* shape of the loaded book.json
    files,              \* what is on disk: cover/back/scene images, folder, markdown
    sample_size,        \* what Image.open(sample).size gives for the auto-trim sample
    pc,                 \* position of the main thread in the script
    exit_status,        \* NoneVal while running, then the process status
    cover_image_path, back_image_path, scene_images,
    trim_width_cm, trim_height_cm,
    geom,               \* final / cover / back dimensions (lines 248-268)
    main_pdf, cover_pdf, back_pdf,
    total_pages, page_counter,
    stdout_mr,          \* machine-readable lines printed so far
    idx, half,          \* scene loop: current scene and which of its two pages is next
    color_cache,        \* _color_cache
    decodes,            \* per path: number of Image.open calls made by extract_bg_colors
    futures,            \* per scene: state of its pre-extraction task
    task_result,        \* per scene: result held by its worker between decode and store
    fit                 \* activation record of wrap_and_draw_text

vars == <<FONT_PRIMARY, args, book_data, files, sample_size, pc, exit_status,
          cover_image_path, back_image_path, scene_images,
          trim_width_cm, trim_height_cm, geom,
          main_pdf, cover_pdf, back_pdf, total_pages, page_counter, stdout_mr,
          idx, half, color_cache, decodes, futures, task_result, fit>>

\* What no statement after the argument parsing assigns.
inputVars == <<FONT_PRIMARY, args, book_data, files, sample_size>>
pathVars == <<cover_image_path, back_image_path, scene_images>>
trimVars == <<trim_width_cm, trim_height_cm>>
docVars == <<main_pdf, cover_pdf, back_pdf>>
progressVars == <<total_pages, page_counter, stdout_mr>>
loopVars == <<idx, half>>
cacheVars == <<color_cache, decodes>>
poolVars == <<futures, task_result>>

(***************************************************************************)
(* Python truthiness of an optional number: None and 0.0 are false.        *)
(***************************************************************************)
Truthy(v) == v # NoneVal /\ v # 0

PyOr(a, b) == IF Truthy(a) THEN a ELSE b

Min(a, b) == IF a <= b THEN a ELSE b

Max(a, b) == IF a >= b THEN a ELSE b

Abs(a) == IF a >= 0 THEN a ELSE 0 - a

(***************************************************************************)
(* File paths.  cover.<ext>, back.<ext> and scene_<n>.<ext> of the images  *)
(* directory, and the n-th image file of the legacy input folder.          *)
(***************************************************************************)
Path(kind, n) == [kind |-> kind, n |-> n]

NoPath == Path("none", 0)

(***************************************************************************)
(* Geometry resolver (lines 188-268).                                      *)
(***************************************************************************)

\* The image whose aspect decides the trim: cover, first scene, back, then
\* the first image file of the legacy folder.
_first_image_for_aspect ==
    IF cover_image_path # NoPath THEN cover_image_path
    ELSE IF scene_images # <<>> THEN scene_images[1]
    ELSE IF back_image_path # NoPath THEN back_image_path
    ELSE IF files.legacy THEN Path("legacy", 1)
    ELSE NoPath

\* abs(w/h - 1.0) <= 0.02, for h > 0, without the division.
AspectIsSquare(w, h) == 50 * Abs(w - h) <= h

\* aspect >= 1.0
AspectAtLeastOne(w, h) == w >= h

\* The rectangular preset for an image of size w x h (lines 232-239).
RectTrim_m(w, h) == <<args.rect_width_cm, args.rect_height_cm>>

RectTrim(w, h) ==
    IF AspectAtLeastOne(w, h)
    THEN <<args.rect_width_cm, args.rect_height_cm>>
    ELSE <<args.rect_height_cm, args.rect_width_cm>>

\* The trim the script settles on (lines 190-246).
ResolvedTrim ==
    IF Truthy(args.page_width_cm) \/ Truthy(args.page_height_cm)
    THEN IF Truthy(args.page_width_cm) /\ Truthy(args.page_height_cm)
         THEN <<args.page_width_cm, args.page_height_cm>>
         ELSE <<PyOr(args.page_width_cm, args.page_height_cm),
                PyOr(args.page_width_cm, args.page_height_cm)>>
    ELSE IF args.auto_trim
            /\ _first_image_for_aspect # NoPath
            /\ sample_size.readable
            /\ sample_size.h > 0
         THEN IF AspectIsSquare(sample_size.w, sample_size.h)
              THEN <<args.square_size_cm, args.square_size_cm>>
              ELSE RectTrim(sample_size.w, sample_size.h)
         ELSE <<DefaultTrim, DefaultTrim>>

ResolveTrim ==
    /\ pc = "trim"
    /\ trim_width_cm' = ResolvedTrim[1]
    /\ trim_height_cm' = ResolvedTrim[2]
    /\ pc' = "dims"
    /\ UNCHANGED <<inputVars, exit_status, pathVars, geom, docVars, progressVars,
                   loopVars, cacheVars, poolVars, fit>>

\* Lines 248-268: final, cover and back dimensions.
ComputedGeom ==
    LET bleed_cm == args.bleed_cm
        cover_width_cm ==
            IF Truthy(args.cover_width_cm) THEN args.cover_width_cm ELSE trim_width_cm
        cover_height_cm ==
            IF Truthy(args.cover_height_cm) THEN args.cover_height_cm
            ELSE IF Truthy(args.cover_width_cm) THEN args.cover_width_cm
            ELSE trim_height_cm
        back_width_cm ==
            IF Truthy(args.back_width_cm) THEN args.back_width_cm ELSE cover_width_cm
        back_height_cm ==
            IF Truthy(args.back_height_cm) THEN args.back_height_cm
            ELSE IF Truthy(args.back_width_cm) THEN args.back_width_cm
            ELSE cover_height_cm
    IN  [ final_width_cm |-> trim_width_cm + (bleed_cm * 2),
          final_height_cm |-> trim_height_cm + (bleed_cm * 2),
          cover_width_cm |-> cover_width_cm,
          cover_height_cm |-> cover_height_cm,
          cover_final_width_cm |-> cover_width_cm + (bleed_cm * 2),
          cover_final_height_cm |-> cover_height_cm + (bleed_cm * 2),
          back_width_cm |-> back_width_cm,
          back_height_cm |-> back_height_cm,
          back_final_width_cm |-> back_width_cm + (bleed_cm * 2),
          back_final_height_cm |-> back_height_cm + (bleed_cm * 2) ]

NoGeom ==
    [ final_width_cm |-> 0, final_height_cm |-> 0,
      cover_width_cm |-> 0, cover_height_cm |-> 0,
      cover_final_width_cm |-> 0, cover_final_height_cm |-> 0,
      back_width_cm |-> 0, back_height_cm |-> 0,
      back_final_width_cm |-> 0, back_final_height_cm |-> 0 ]

ComputeDimensions ==
    /\ pc = "dims"
    /\ geom' = ComputedGeom
    /\ pc' = IF args.book_json THEN "cover_pdf" ELSE "flat_validate"
    /\ UNCHANGED <<inputVars, exit_status, pathVars, trimVars, docVars, progressVars,
                   loopVars, cacheVars, poolVars, fit>>

(***************************************************************************)
(* Background colour sampler (lines 61-106).                               *)
(***************************************************************************)
Color(r, g, b, den) == [r |-> r, g |-> g, b |-> b, den |-> den]

NoColor == Color(0, 0, 0, 0)

White == Color(1, 1, 1, 1)

\* result = (0.95,0.95,0.95)
FallbackGray == Color(95, 95, 95, 100)

\* 10000 * den * (0.2126*r + 0.7152*g + 0.0722*b)
LumNum(c) == 2126 * c.r + 7152 * c.g + 722 * c.b

\* lum < 0.25
TooDark(c) == 4 * LumNum(c) < 10000 * c.den

\* Lines 86-91 for a colour with lum < 0.25: every channel is multiplied by
\* scale_factor = 0.25 / lum (4.0 when lum is 0) and clamped to 1.0.  With
\* S = LumNum(c), r * 0.25 / lum is 2500*c.r / S.
Scaled(c) ==
    IF LumNum(c) > 0
    THEN Color(Min(2500 * c.r, LumNum(c)), Min(2500 * c.g, LumNum(c)),
               Min(2500 * c.b, LumNum(c)), LumNum(c))
    ELSE Color(Min(4 * c.r, c.den), Min(4 * c.g, c.den), Min(4 * c.b, c.den), c.den)

\* Lines 79-93: from the blended base colour to the result.
Brighten(c) == IF TooDark(c) THEN Scaled(c) ELSE c

\* The image file behind a path the sampler is called with.
ImageAt(path) == files.scene[path.n]

\* What extract_bg_colors computes for a path that is not in the cache:
\* the brightened sample, or the fallback gray when decoding raises.
ExtractValue(path) ==
    IF ImageAt(path).readable
    THEN Brighten(Color(ImageAt(path).rgb[1], ImageAt(path).rgb[2],
                        ImageAt(path).rgb[3], ColorScale))
    ELSE FallbackGray

\* lum > 0.6 gives black text, otherwise white.
pick_text_color(c) == IF 10 * LumNum(c) > 6 * 10000 * c.den THEN "black" ELSE "white"

DecodeCount(path) == IF path \in DOMAIN decodes THEN decodes[path] ELSE 0

\* extract_bg_colors called by the main thread while no worker runs:
\* the value returned, and the cache and the decode count afterwards.
CacheHit(path) == path \in DOMAIN color_cache

Extracted(path) == IF CacheHit(path) THEN color_cache[path] ELSE ExtractValue(path)

CacheAfter(path) ==
    IF CacheHit(path) THEN color_cache
    ELSE (path :> ExtractValue(path)) @@ color_cache

DecodesAfter(path) ==
    IF CacheHit(path) THEN decodes
    ELSE (path :> DecodeCount(path) + 1) @@ decodes

(***************************************************************************)
(* Documents and pages.                                                    *)
(***************************************************************************)
NoPdf == [state |-> "none", pagesize |-> <<0, 0>>, pages |-> <<>>]

\* canvas.Canvas(path, pagesize=(w, h)); sizes stay in mm, cm_to_points is
\* the same linear map for every length.
OpenPdf_m(w, h) == [state |-> "open", pagesize |-> <<h, w>>, pages |-> <<>>]

OpenPdf(w, h) == [state |-> "open", pagesize |-> <<w, h>>, pages |-> <<>>]

Page(kind, scene, image, bg, fg) ==
    [kind |-> kind, scene |-> scene, image |-> image, bg |-> bg, fg |-> fg]

ImagePage(kind, scene, image) == Page(kind, scene, image, NoColor, "none")

ShowPage(pdf, page) == [pdf EXCEPT !.pages = Append(@, page)]

SavePdf(pdf) == [pdf EXCEPT !.state = "saved"]

Line(tag, k, n) == [tag |-> tag, k |-> k, n |-> n]

\* "if args.mr: print(...)"
Emit(out, line) == IF args.mr THEN Append(out, line) ELSE out

\* Number of iterations of the scene loop: len(scenes) in JSON mode,
\* the length of zip(image_files, text_pages) in the legacy mode.
SceneCount ==
    IF args.book_json THEN book_data.n_scenes
    ELSE Min(Len(files.scene), files.text_pages)

AfterScenes == IF args.book_json THEN "closing" ELSE "save"

LoopPc(i) == IF i > SceneCount THEN AfterScenes ELSE "scenes"

(***************************************************************************)
(* JSON mode: loading the manifest and resolving the images                *)
(* (lines 143-183).                                                        *)
(***************************************************************************)
RequiredFields == {"shortDescription", "motivationEnd", "scenes"}

\* Lines 147-156: the three checks that end in sys.exit(1).
ManifestAccepted_m ==
    /\ book_data.is_dict
    /\ RequiredFields \subseteq book_data.fields

ManifestAccepted ==
    /\ book_data.is_dict
    /\ RequiredFields \subseteq book_data.fields
    /\ book_data.scenes_is_list

Exit(status) ==
    /\ pc' = "exited"
    /\ exit_status' = status

LoadManifest ==
    /\ pc = "load"
    /\ IF ManifestAccepted
       THEN pc' = "collect" /\ UNCHANGED exit_status
       ELSE Exit(1)
    /\ UNCHANGED <<inputVars, pathVars, trimVars, geom, docVars, progressVars,
                   loopVars, cacheVars, poolVars, fit>>

\* Scene indices without an image file under any extension.
MissingScenes == {i \in 1..book_data.n_scenes : ~files.scene[i].exists}

FirstMissing == CHOOSE i \in MissingScenes : \A j \in MissingScenes : i <= j

\* Lines 157-183.
ResolveImages ==
    /\ pc = "collect"
    /\ cover_image_path' = IF files.cover THEN Path("cover", 0) ELSE NoPath
    /\ back_image_path' = IF files.back THEN Path("back", 0) ELSE NoPath
    /\ IF MissingScenes = {}
       THEN /\ scene_images' = [i \in 1..book_data.n_scenes |-> Path("scene", i)]
            /\ pc' = "trim"
            /\ UNCHANGED exit_status
       ELSE /\ scene_images' = [i \in 1..(FirstMissing - 1) |-> Path("scene", i)]
            /\ Exit(1)
    /\ UNCHANGED <<inputVars, trimVars, geom, docVars, progressVars,
                   loopVars, cacheVars, poolVars, fit>>

(***************************************************************************)
(* Legacy mode: markdown + folder validation (lines 322-338).              *)
(***************************************************************************)
FlatAccepted ==
    /\ Len(files.scene) # 0
    /\ files.text_pages # 0
    /\ Len(files.scene) = files.text_pages

FlatValidate ==
    /\ pc = "flat_validate"
    /\ IF FlatAccepted
       THEN pc' = "open" /\ UNCHANGED exit_status
       ELSE Exit(1)
    /\ UNCHANGED <<inputVars, pathVars, trimVars, geom, docVars, progressVars,
                   loopVars, cacheVars, poolVars, fit>>

(***************************************************************************)
(* JSON mode: the separate cover and back documents (lines 387-420).       *)
(***************************************************************************)
SplitCover == args.split_cover /\ cover_image_path # NoPath

CoverPdf ==
    /\ pc = "cover_pdf"
    /\ cover_pdf' =
         IF SplitCover
         THEN SavePdf(ShowPage(OpenPdf(geom.cover_final_width_cm, geom.cover_final_height_cm),
                               ImagePage("cover", 0, cover_image_path)))
         ELSE cover_pdf
    /\ pc' = "back_pdf"
    /\ UNCHANGED <<inputVars, exit_status, pathVars, trimVars, geom, main_pdf, back_pdf,
                   progressVars, loopVars, cacheVars, poolVars, fit>>

\* "if back_image_path:" with the comment "Generate back.pdf always for
\* consistency (even without --split-back)".
BackRequested_m == back_image_path # NoPath /\ args.split_back

BackRequested == back_image_path # NoPath

\* The try block of lines 412-420: the document is saved, or an exception
\* leaves it unsaved and the run goes on.
BackPdf_m ==
    /\ pc = "back_pdf"
    /\ back_pdf' =
         IF BackRequested
         THEN IF files.back_writable
              THEN SavePdf(ShowPage(OpenPdf(geom.back_final_width_cm, geom.back_final_height_cm),
                                    ImagePage("back", 0, back_image_path)))
              ELSE [OpenPdf(geom.back_final_width_cm, geom.back_final_height_cm)
                      EXCEPT !.state = "failed"]
         ELSE back_pdf
    /\ pc' = IF BackRequested /\ ~files.back_writable THEN "exited" ELSE "open"
    /\ UNCHANGED <<inputVars, exit_status, pathVars, trimVars, geom, main_pdf, cover_pdf,
                   progressVars, loopVars, cacheVars, poolVars, fit>>

BackPdf ==
    /\ pc = "back_pdf"
    /\ back_pdf' =
         IF BackRequested
         THEN IF files.back_writable
              THEN SavePdf(ShowPage(OpenPdf(geom.back_final_width_cm, geom.back_final_height_cm),
                                    ImagePage("back", 0, back_image_path)))
              ELSE [OpenPdf(geom.back_final_width_cm, geom.back_final_height_cm)
                      EXCEPT !.state = "failed"]
         ELSE back_pdf
    /\ pc' = "open"
    /\ UNCHANGED <<inputVars, exit_status, pathVars, trimVars, geom, main_pdf, cover_pdf,
                   progressVars, loopVars, cacheVars, poolVars, fit>>

(***************************************************************************)
(* The main document (lines 339-381 and 422-503).                          *)
(***************************************************************************)
include_cover_in_main == ~(args.split_cover /\ cover_image_path # NoPath)

CoverInMain == cover_image_path # NoPath /\ include_cover_in_main

\* Lines 340 and 425.
ComputedTotal_m ==
    IF args.book_json
    THEN (IF cover_image_path # NoPath THEN 1 ELSE 0) + 1 + (book_data.n_scenes * 2) + 1
    ELSE Len(files.scene) * 2

ComputedTotal ==
    IF args.book_json
    THEN (IF CoverInMain THEN 1 ELSE 0) + 1 + (book_data.n_scenes * 2) + 1
    ELSE Len(files.scene) * 2

OpenMain ==
    /\ pc = "open"
    /\ total_pages' = ComputedTotal
    /\ main_pdf' = OpenPdf(geom.final_width_cm, geom.final_height_cm)
    /\ page_counter' = 0
    /\ stdout_mr' = Emit(stdout_mr, Line("PDFTOTAL", 0, ComputedTotal))
    /\ idx' = 1
    /\ half' = 1
    /\ pc' = IF args.book_json THEN "cover_page" ELSE LoopPc(1)
    /\ UNCHANGED <<inputVars, exit_status, pathVars, trimVars, geom, cover_pdf, back_pdf,
                   cacheVars, poolVars, fit>>

\* "c.showPage(); page_counter += 1; if args.mr: print(PDFPAGE|...)"
CommitPage_m(page) ==
    /\ main_pdf' = ShowPage(main_pdf, page)
    /\ page_counter' = page_counter + 1
    /\ stdout_mr' = Emit(stdout_mr, Line("PDFPAGE", page_counter, total_pages))
    /\ UNCHANGED total_pages

CommitPage(page) ==
    /\ main_pdf' = ShowPage(main_pdf, page)
    /\ page_counter' = page_counter + 1
    /\ stdout_mr' = Emit(stdout_mr, Line("PDFPAGE", page_counter + 1, total_pages))
    /\ UNCHANGED total_pages

CoverPage ==
    /\ pc = "cover_page"
    /\ IF CoverInMain
       THEN CommitPage(ImagePage("cover", 0, cover_image_path))
       ELSE UNCHANGED <<main_pdf, progressVars>>
    /\ pc' = "front"
    /\ UNCHANGED <<inputVars, exit_status, pathVars, trimVars, geom, cover_pdf, back_pdf,
                   loopVars, cacheVars, poolVars, fit>>

\* Short description page (lines 438-445).
FrontMatter ==
    /\ pc = "front"
    /\ CommitPage(Page("front", 0, NoPath, White, "black"))
    /\ pc' = "submit"
    /\ UNCHANGED <<inputVars, exit_status, pathVars, trimVars, geom, cover_pdf, back_pdf,
                   loopVars, cacheVars, poolVars, fit>>

(***************************************************************************)
(* Pre-extraction pool (lines 447-456).  A task runs extract_bg_colors in  *)
(* a worker thread: it looks the path up in the cache, opens and samples   *)
(* the image, then stores the result; the three steps of different tasks   *)
(* interleave.                                                             *)
(***************************************************************************)

\* The argument of the i-th submitted task: scene_images[i].
TaskPath_m(i) == scene_images[1]

TaskPath(i) == scene_images[i]

Running == {i \in DOMAIN futures : futures[i] \in {"opening", "computed"}}

SubmitAll ==
    /\ pc = "submit"
    /\ futures' = [i \in 1..Len(scene_images) |-> "pending"]
    /\ task_result' = [i \in 1..Len(scene_images) |-> NoColor]
    /\ pc' = "pool"
    /\ UNCHANGED <<inputVars, exit_status, pathVars, trimVars, geom, docVars, progressVars,
                   loopVars, cacheVars, fit>>

\* Line 66, in a worker: tasks leave the queue in submission order, and at
\* most max_workers of them run.
WorkerLookup(i) ==
    /\ pc = "pool"
    /\ futures[i] = "pending"
    /\ \A j \in 1..(i - 1) : futures[j] # "pending"
    /\ Cardinality(Running) < max_workers
    /\ futures' = [futures EXCEPT ![i] = IF CacheHit(TaskPath(i)) THEN "done" ELSE "opening"]
    /\ UNCHANGED <<inputVars, pc, exit_status, pathVars, trimVars, geom, docVars,
                   progressVars, loopVars, cacheVars, task_result, fit>>

\* Lines 69-93 or 96-98, in a worker.
WorkerDecode(i) ==
    /\ pc = "pool"
    /\ futures[i] = "opening"
    /\ decodes' = (TaskPath(i) :> DecodeCount(TaskPath(i)) + 1) @@ decodes
    /\ task_result' = [task_result EXCEPT ![i] = ExtractValue(TaskPath(i))]
    /\ futures' = [futures EXCEPT ![i] = "computed"]
    /\ UNCHANGED <<inputVars, pc, exit_status, pathVars, trimVars, geom, docVars,
                   progressVars, loopVars, color_cache, fit>>

WorkerStore_m(i) ==
    /\ pc = "pool"
    /\ futures[i] = "computed"
    /\ color_cache' = IF ImageAt(TaskPath(i)).readable
                      THEN (TaskPath(i) :> task_result[i]) @@ color_cache
                      ELSE color_cache
    /\ futures' = [futures EXCEPT ![i] = "done"]
    /\ UNCHANGED <<inputVars, pc, exit_status, pathVars, trimVars, geom, docVars,
                   progressVars, loopVars, decodes, task_result, fit>>

\* Lines 94-95 or 99-100, in a worker.
WorkerStore(i) ==
    /\ pc = "pool"
    /\ futures[i] = "computed"
    /\ color_cache' = (TaskPath(i) :> task_result[i]) @@ color_cache
    /\ futures' = [futures EXCEPT ![i] = "done"]
    /\ UNCHANGED <<inputVars, pc, exit_status, pathVars, trimVars, geom, docVars,
                   progressVars, loopVars, decodes, task_result, fit>>

JoinPool_m ==
    /\ pc = "pool"
    /\ pc' = LoopPc(1)
    /\ UNCHANGED <<inputVars, exit_status, pathVars, trimVars, geom, docVars, progressVars,
                   loopVars, cacheVars, poolVars, fit>>

\* as_completed has yielded every future and the executor has shut down.
JoinPool ==
    /\ pc = "pool"
    /\ \A i \in DOMAIN futures : futures[i] = "done"
    /\ pc' = LoopPc(1)
    /\ UNCHANGED <<inputVars, exit_status, pathVars, trimVars, geom, docVars, progressVars,
                   loopVars, cacheVars, poolVars, fit>>

(***************************************************************************)
(* Scene loop (lines 345-378 and 459-491).                                 *)
(***************************************************************************)

\* image_path of iteration i.
ImagePathOf(i) == IF args.book_json THEN scene_images[i] ELSE Path("legacy", i)

\* "if idx % 2 != 0": text then image, else image then text.
TextFirst_m(i) == i % 2 = 0

TextFirst(i) == i % 2 # 0

TextPageDue == (TextFirst(idx) /\ half = 1) \/ (~TextFirst(idx) /\ half = 2)

Advance ==
    /\ idx' = IF half = 2 THEN idx + 1 ELSE idx
    /\ half' = IF half = 2 THEN 1 ELSE 2
    /\ pc' = IF half = 2 THEN LoopPc(idx + 1) ELSE "scenes"

\* The image whose colour fills the text page of iteration i.
TextColorSource(i) == ImagePathOf(i)

SceneTextPage ==
    /\ pc = "scenes"
    /\ TextPageDue
    /\ color_cache' = CacheAfter(TextColorSource(idx))
    /\ decodes' = DecodesAfter(TextColorSource(idx))
    /\ CommitPage(Page("text", idx, NoPath, Extracted(TextColorSource(idx)),
                       pick_text_color(Extracted(TextColorSource(idx)))))
    /\ Advance
    /\ UNCHANGED <<inputVars, exit_status, pathVars, trimVars, geom, cover_pdf, back_pdf,
                   poolVars, fit>>

SceneImagePage ==
    /\ pc = "scenes"
    /\ ~TextPageDue
    /\ CommitPage(ImagePage("image", idx, ImagePathOf(idx)))
    /\ Advance
    /\ UNCHANGED <<inputVars, exit_status, pathVars, trimVars, geom, cover_pdf, back_pdf,
                   cacheVars, poolVars, fit>>

\* Motivation End page (lines 493-500).
ClosingMatter ==
    /\ pc = "closing"
    /\ CommitPage(Page("closing", 0, NoPath, White, "black"))
    /\ pc' = "save"
    /\ UNCHANGED <<inputVars, exit_status, pathVars, trimVars, geom, cover_pdf, back_pdf,
                   loopVars, cacheVars, poolVars, fit>>

\* "c.save()" then PDFDONE (lines 379-381 and 502-503).
SaveMain ==
    /\ pc = "save"
    /\ main_pdf' = SavePdf(main_pdf)
    /\ stdout_mr' = Emit(stdout_mr, Line("PDFDONE", 0, 0))
    /\ pc' = "done"
    /\ exit_status' = 0
    /\ UNCHANGED <<inputVars, pathVars, trimVars, geom, cover_pdf, back_pdf,
                   total_pages, page_counter, loopVars, cacheVars, poolVars, fit>>

(***************************************************************************)
(* Inputs of a run.                                                        *)
(***************************************************************************)
ImageFile(exists, readable, rgb) == [exists |-> exists, readable |-> readable, rgb |-> rgb]

MissingImage == ImageFile(FALSE, FALSE, <<0, 0, 0>>)

\* A file that exists but makes Image.open or the sampling raise.
BadImage == ImageFile(TRUE, FALSE, <<0, 0, 0>>)

\* Sampled colours of the images of a whole run: a saturated dark blue and white.
RunPalette == {<<0, 0, ColorScale>>, <<ColorScale, ColorScale, ColorScale>>}

GoodImages(palette) == {ImageFile(TRUE, TRUE, c) : c \in palette}

Manifest(is_dict, fields, scenes_is_list, n) ==
    [is_dict |-> is_dict, fields |-> fields, scenes_is_list |-> scenes_is_list, n_scenes |-> n]

\* book_data = None: no --book-json.
NoManifest == Manifest(FALSE, {}, FALSE, 0)

AcceptedManifests == {Manifest(TRUE, RequiredFields, TRUE, n) : n \in 0..MaxScenes}

RejectedManifests ==
    {Manifest(FALSE, {}, FALSE, 0)}
    \cup {Manifest(TRUE, fs, FALSE, 0) : fs \in SUBSET RequiredFields}
    \cup {Manifest(TRUE, fs, TRUE, n) :
            fs \in {f \in SUBSET RequiredFields : "scenes" \in f /\ f # RequiredFields},
            n \in 0..1}

Files(cover, back, back_writable, scene, legacy, text_pages) ==
    [cover |-> cover, back |-> back, back_writable |-> back_writable,
     scene |-> scene, legacy |-> legacy, text_pages |-> text_pages]

SquareSample == [readable |-> TRUE, w |-> 100, h |-> 100]

\* Command lines of whole runs: the geometry options keep their defaults.
RunArgs ==
    [book_json : BOOLEAN, mr : BOOLEAN, split_cover : BOOLEAN, split_back : BOOLEAN,
     auto_trim : {FALSE}, page_width_cm : {NoneVal}, page_height_cm : {NoneVal},
     square_size_cm : {190}, rect_width_cm : {210}, rect_height_cm : {148},
     bleed_cm : {5}, cover_width_cm : {NoneVal}, cover_height_cm : {NoneVal},
     back_width_cm : {NoneVal}, back_height_cm : {NoneVal}]

NoFit == [pc |-> "idle", text |-> <<>>, page_width |-> 0, page_height |-> 0,
          font_size |-> 0, lines |-> <<>>, drawn |-> <<>>, y_cursor |-> 0]

\* Lines 21-26: the TTF font becomes the primary font when it registers,
\* otherwise the warning is printed and Helvetica stays.
RegisteredFont(registers) == IF registers THEN FONT_FALLBACK ELSE BuiltinFont

\* The state of the script before its first statement that depends on the
\* command line, after the font registration of lines 21-26.
StartWith(a, bd, f, ss, font) ==
    /\ FONT_PRIMARY = font
    /\ args = a
    /\ book_data = bd
    /\ files = f
    /\ sample_size = ss
    /\ pc = IF a.book_json THEN "load" ELSE "trim"
    /\ exit_status = NoneVal
    /\ cover_image_path = NoPath
    /\ back_image_path = NoPath
    /\ scene_images = <<>>
    /\ trim_width_cm = DefaultTrim
    /\ trim_height_cm = DefaultTrim
    /\ geom = NoGeom
    /\ main_pdf = NoPdf
    /\ cover_pdf = NoPdf
    /\ back_pdf = NoPdf
    /\ total_pages = 0
    /\ page_counter = 0
    /\ stdout_mr = <<>>
    /\ idx = 1
    /\ half = 1
    /\ color_cache = <<>>
    /\ decodes = <<>>
    /\ futures = <<>>
    /\ task_result = <<>>
    /\ fit = NoFit

Start(a, bd, f, ss) == StartWith(a, bd, f, ss, RegisteredFont(TRUE))

JsonInit(a) ==
    \/ \E bd \in AcceptedManifests :
         \E scene \in [1..bd.n_scenes -> {MissingImage, BadImage} \cup GoodImages(RunPalette)] :
           \E cover \in BOOLEAN, back \in BOOLEAN, back_writable \in BOOLEAN :
             /\ back \/ back_writable
             /\ Start(a, bd, Files(cover, back, back_writable, scene, FALSE, 0), SquareSample)
    \/ \E bd \in RejectedManifests :
         /\ a.split_cover /\ a.split_back
         /\ Start(a, bd,
                  Files(TRUE, TRUE, TRUE,
                        [i \in 1..bd.n_scenes |-> ImageFile(TRUE, TRUE, <<0, 0, ColorScale>>)],
                        FALSE, 0),
                  SquareSample)

FlatInit(a) ==
    /\ ~a.split_cover /\ ~a.split_back
    /\ \E n \in 0..MaxScenes, t \in 0..MaxScenes :
         \E scene \in [1..n -> {BadImage} \cup GoodImages(RunPalette)] :
           Start(a, NoManifest, Files(FALSE, FALSE, TRUE, scene, n > 0, t), SquareSample)

Init == \E a \in RunArgs : IF a.book_json THEN JsonInit(a) ELSE FlatInit(a)

Worker ==
    \E i \in DOMAIN futures : WorkerLookup(i) \/ WorkerDecode(i) \/ WorkerStore(i)

Next ==
    \/ LoadManifest
    \/ ResolveImages
    \/ ResolveTrim
    \/ ComputeDimensions
    \/ FlatValidate
    \/ CoverPdf
    \/ BackPdf
    \/ OpenMain
    \/ CoverPage
    \/ FrontMatter
    \/ SubmitAll
    \/ Worker
    \/ JoinPool
    \/ SceneTextPage
    \/ SceneImagePage
    \/ ClosingMatter
    \/ SaveMain

Spec == Init /\ [][Next]_vars

(***************************************************************************)
(* Claims about whole runs, checked under Spec.                            *)
(***************************************************************************)
IsPrefix(s, t) == Len(s) <= Len(t) /\ \A i \in 1..Len(s) : s[i] = t[i]

\* PDFTOTAL|n, PDFPAGE|1|n .. PDFPAGE|n|n, PDFDONE
ExpectedLines(n) ==
    <<Line("PDFTOTAL", 0, n)>> \o [k \in 1..n |-> Line("PDFPAGE", k, n)]
        \o <<Line("PDFDONE", 0, 0)>>

\* C1: with --mr the machine-readable lines are PDFTOTAL|n before any page of
\* the main document, then PDFPAGE|k|n after each committed page for
\* k = 1..n in order, then PDFDONE once the main document is saved; without
\* --mr no such line is printed.
C1_ProgressProtocol ==
    /\ ~args.mr => stdout_mr = <<>>
    /\ args.mr =>
         /\ IsPrefix(stdout_mr, ExpectedLines(total_pages))
         /\ main_pdf.state = "none" => stdout_mr = <<>>
         /\ main_pdf.state = "open" => Len(stdout_mr) = 1 + Len(main_pdf.pages)
         /\ main_pdf.state = "saved" =>
              /\ stdout_mr = ExpectedLines(total_pages)
              /\ Len(main_pdf.pages) = total_pages

C1_Witness ==
    /\ pc = "done"
    /\ args.mr
    /\ args.book_json
    /\ book_data.n_scenes >= 2
    /\ stdout_mr[Len(stdout_mr)].tag = "PDFDONE"
    /\ stdout_mr[Len(stdout_mr) - 1] = Line("PDFPAGE", total_pages, total_pages)

\* The page count of the main document as a function of the inputs alone.
ClosedFormTotal ==
    IF args.book_json
    THEN (IF files.cover /\ ~args.split_cover THEN 1 ELSE 0) + 1 + 2 * book_data.n_scenes + 1
    ELSE 2 * SceneCount

\* C2: once the main document is open total_pages is the closed form of the
\* mode, the cover routing and the scene count; page_counter counts the
\* committed pages, never exceeds total_pages and equals it when the main
\* document is saved.
C2_TotalPages ==
    /\ main_pdf.state = "none" => page_counter = 0 /\ main_pdf.pages = <<>>
    /\ main_pdf.state # "none" =>
         /\ total_pages = ClosedFormTotal
         /\ page_counter = Len(main_pdf.pages)
         /\ page_counter <= total_pages
    /\ main_pdf.state = "saved" => page_counter = total_pages

C2_Witness ==
    /\ pc = "done"
    /\ args.book_json
    /\ files.cover
    /\ args.split_cover
    /\ book_data.n_scenes >= 1
    /\ page_counter = 1 + 2 * book_data.n_scenes + 1

\* The image file of scene i, by the naming convention of the mode.
SceneFile(i) == IF args.book_json THEN Path("scene", i) ELSE Path("legacy", i)

ExpectedTextPage(i) ==
    Page("text", i, NoPath, ExtractValue(SceneFile(i)), pick_text_color(ExtractValue(SceneFile(i))))

ExpectedScenePages(i) ==
    IF i % 2 = 1
    THEN <<ExpectedTextPage(i), ImagePage("image", i, SceneFile(i))>>
    ELSE <<ImagePage("image", i, SceneFile(i)), ExpectedTextPage(i)>>

\* Pages of the main document in front of the first scene.
PreamblePages == IF args.book_json THEN (IF files.cover /\ ~args.split_cover THEN 1 ELSE 0) + 1 ELSE 0

\* C3: the pages of scene i are the two consecutive pages 2i-1 and 2i after
\* the preamble: text then image of scene i for odd i, image then text for
\* even i, the text page filled with the colour sampled from scene i's image;
\* no other page of the main document is a scene page.
C3_SceneOrder ==
    /\ \A p \in 1..Len(main_pdf.pages) :
         IF (p - PreamblePages) \in 1..(2 * SceneCount)
         THEN main_pdf.pages[p] =
                ExpectedScenePages((p - PreamblePages + 1) \div 2)[((p - PreamblePages - 1) % 2) + 1]
         ELSE main_pdf.pages[p].kind \notin {"text", "image"}
    /\ main_pdf.state = "saved" => Len(main_pdf.pages) >= PreamblePages + 2 * SceneCount

C3_Witness ==
    /\ pc = "done"
    /\ SceneCount >= 3
    /\ files.scene[2].readable /\ files.scene[3].readable
    /\ files.scene[2].rgb # files.scene[3].rgb
    /\ main_pdf.pages[PreamblePages + 3].kind = "image"
    /\ main_pdf.pages[PreamblePages + 4].kind = "text"

\* The inputs validation rejects, stated on the inputs.
ValidationFails ==
    IF args.book_json
    THEN \/ ~book_data.is_dict
         \/ \E f \in RequiredFields : f \notin book_data.fields
         \/ ~book_data.scenes_is_list
         \/ \E i \in 1..book_data.n_scenes : ~files.scene[i].exists
    ELSE \/ Len(files.scene) = 0
         \/ files.text_pages = 0
         \/ Len(files.scene) # files.text_pages

\* C7: in a run whose inputs fail validation no document is ever opened,
\* drawn to or saved, no machine-readable line is printed, the script never
\* gets past validation, it can always take its next step until it has
\* exited, and it exits with status 1.
C7_ValidationFailure ==
    ValidationFails =>
      /\ main_pdf = NoPdf /\ cover_pdf = NoPdf /\ back_pdf = NoPdf
      /\ stdout_mr = <<>>
      /\ pc \in {"load", "collect", "trim", "dims", "flat_validate", "exited"}
      /\ pc = "exited" <=> exit_status = 1
      /\ pc # "exited" => exit_status = NoneVal /\ ENABLED Next

C7_Witness ==
    /\ pc = "exited"
    /\ exit_status = 1
    /\ args.book_json
    /\ ManifestAccepted
    /\ args.mr /\ args.split_cover /\ files.cover /\ files.back
    /\ book_data.n_scenes >= 2
    /\ files.scene[1].exists /\ ~files.scene[2].exists

AfterBackStep ==
    pc \in {"open", "cover_page", "front", "submit", "pool", "scenes", "closing", "save", "done"}

NoBackPageInMain ==
    \A p \in 1..Len(main_pdf.pages) :
        main_pdf.pages[p].image # Path("back", 0) /\ main_pdf.pages[p].kind # "back"

\* C8 as stated: a back document is written exactly when a back image exists
\* and --split-back is set (in runs where writing it does not fail), and the
\* back image is never a page of the main document.
C8_Original ==
    /\ (args.book_json /\ AfterBackStep /\ files.back_writable) =>
          (back_pdf.state = "saved" <=> (files.back /\ args.split_back))
    /\ NoBackPageInMain

\* C8 (amended): in JSON mode a back document is produced whenever a back
\* image exists, with or without --split-back: it is written when its
\* creation succeeds and left unsaved when it raises; without a back image,
\* and in the legacy mode, there is no back document; the back image is never
\* a page of the main document.
C8_BackDocument ==
    /\ (args.book_json /\ AfterBackStep) =>
          /\ back_pdf.state = "saved" <=> (files.back /\ files.back_writable)
          /\ back_pdf.state = "failed" <=> (files.back /\ ~files.back_writable)
          /\ back_pdf.state = "saved" =>
               back_pdf.pages = <<ImagePage("back", 0, Path("back", 0))>>
    /\ ~(args.book_json /\ AfterBackStep) => back_pdf = NoPdf
    /\ NoBackPageInMain

C8_Witness ==
    /\ pc = "done"
    /\ files.back
    /\ ~args.split_back
    /\ back_pdf.state = "saved"
    /\ main_pdf.state = "saved"

\* C9: no image path is opened more than once by extract_bg_colors; an entry
\* of the cache is never changed or removed, and once a path has its entry
\* the file is not opened again; every committed text page carries exactly
\* the cache entry of its scene's image.
C9_DecodeOnce ==
    /\ [](\A p \in DOMAIN decodes : decodes[p] <= 1)
    /\ [](\A p \in 1..Len(main_pdf.pages) :
            main_pdf.pages[p].kind = "text" =>
              /\ SceneFile(main_pdf.pages[p].scene) \in DOMAIN color_cache
              /\ main_pdf.pages[p].bg = color_cache[SceneFile(main_pdf.pages[p].scene)])
    /\ [][\A p \in DOMAIN color_cache :
            /\ p \in DOMAIN color_cache'
            /\ color_cache'[p] = color_cache[p]
            /\ DecodeCount(p)' = DecodeCount(p)]_vars

C9_Witness ==
    /\ pc = "done"
    /\ args.book_json
    /\ Len(scene_images) >= 2
    /\ \A i \in 1..Len(scene_images) :
         scene_images[i] \in DOMAIN color_cache /\ DecodeCount(scene_images[i]) = 1
    /\ color_cache[scene_images[1]] = FallbackGray
    /\ color_cache[scene_images[2]] # FallbackGray

(***************************************************************************)
(* The geometry resolver on its own: the script in JSON mode after         *)
(* ResolveImages, or at the start of the legacy mode, over a grid of       *)
(* geometry options and sample images.                                     *)
(***************************************************************************)
TrimArgs ==
    [book_json : BOOLEAN, mr : {FALSE}, split_cover : {FALSE}, split_back : {FALSE},
     auto_trim : BOOLEAN, page_width_cm : {NoneVal, 0, 200}, page_height_cm : {NoneVal, 150},
     square_size_cm : {190}, rect_width_cm : {148, 210}, rect_height_cm : {148, 210},
     bleed_cm : {0, 5}, cover_width_cm : {NoneVal, 250}, cover_height_cm : {NoneVal, 180},
     back_width_cm : {NoneVal, 260}, back_height_cm : {NoneVal}]

Sample(readable, w, h) == [readable |-> readable, w |-> w, h |-> h]

\* Image.open raises, or gives a size: square, nearly square, landscape,
\* portrait, nearly square portrait, zero height.
SampleSizes ==
    {Sample(FALSE, 0, 0), Sample(TRUE, 100, 100), Sample(TRUE, 101, 100),
     Sample(TRUE, 150, 100), Sample(TRUE, 100, 150), Sample(TRUE, 100, 101),
     Sample(TRUE, 100, 0)}

TrimInit ==
    \E a \in TrimArgs, ss \in SampleSizes :
      \E cover \in BOOLEAN, back \in BOOLEAN, n \in 0..1, legacy \in BOOLEAN :
        /\ ~a.book_json => (~cover /\ ~back /\ n = 0)
        /\ a.book_json => ~legacy
        /\ ((~cover /\ ~back /\ n = 0 /\ ~legacy) \/ ~a.auto_trim) => ss = Sample(FALSE, 0, 0)
        /\ FONT_PRIMARY = RegisteredFont(TRUE)
        /\ args = a
        /\ book_data = IF a.book_json THEN Manifest(TRUE, RequiredFields, TRUE, n) ELSE NoManifest
        /\ files = Files(cover, back, TRUE,
                         [i \in 1..n |-> ImageFile(TRUE, TRUE, <<0, 0, ColorScale>>)], legacy, 0)
        /\ sample_size = ss
        /\ pc = "trim"
        /\ exit_status = NoneVal
        /\ cover_image_path = IF cover THEN Path("cover", 0) ELSE NoPath
        /\ back_image_path = IF back THEN Path("back", 0) ELSE NoPath
        /\ scene_images = [i \in 1..n |-> Path("scene", i)]
        /\ trim_width_cm = DefaultTrim
        /\ trim_height_cm = DefaultTrim
        /\ geom = NoGeom
        /\ main_pdf = NoPdf /\ cover_pdf = NoPdf /\ back_pdf = NoPdf
        /\ total_pages = 0 /\ page_counter = 0 /\ stdout_mr = <<>>
        /\ idx = 1 /\ half = 1
        /\ color_cache = <<>> /\ decodes = <<>>
        /\ futures = <<>> /\ task_result = <<>>
        /\ fit = NoFit

TrimNext == ResolveTrim \/ ComputeDimensions

SpecTrim == TrimInit /\ [][TrimNext]_vars

\* Auto-trim decides, on a readable sample that is not square within 0.02.
AutoTrimRect ==
    /\ pc # "trim"
    /\ args.auto_trim
    /\ args.page_width_cm = NoneVal /\ args.page_height_cm = NoneVal
    /\ _first_image_for_aspect # NoPath
    /\ sample_size.readable
    /\ sample_size.h > 0
    /\ 50 * Abs(sample_size.w - sample_size.h) > sample_size.h

\* C6 as stated: for every choice of the presets the longer side of the trim
\* lies along the longer side of the sample image.
C6_Original ==
    AutoTrimRect =>
      /\ sample_size.w > sample_size.h => trim_width_cm >= trim_height_cm
      /\ sample_size.w < sample_size.h => trim_height_cm >= trim_width_cm

\* C6 (amended): for a landscape sample the trim is rect-width x rect-height,
\* for a portrait sample rect-height x rect-width; the longer side of the
\* trim lies along the longer side of the image when rect-width is at least
\* rect-height.
C6_AutoTrimOrientation ==
    AutoTrimRect =>
      /\ sample_size.w > sample_size.h =>
           /\ trim_width_cm = args.rect_width_cm
           /\ trim_height_cm = args.rect_height_cm
      /\ sample_size.w < sample_size.h =>
           /\ trim_width_cm = args.rect_height_cm
           /\ trim_height_cm = args.rect_width_cm
      /\ args.rect_width_cm >= args.rect_height_cm =>
           /\ sample_size.w > sample_size.h => trim_width_cm >= trim_height_cm
           /\ sample_size.w < sample_size.h => trim_height_cm >= trim_width_cm

C6_Witness ==
    /\ AutoTrimRect
    /\ sample_size.w < sample_size.h
    /\ args.rect_width_cm > args.rect_height_cm
    /\ trim_height_cm = args.rect_width_cm
    /\ trim_height_cm > trim_width_cm
    /\ geom.final_height_cm = trim_height_cm + 2 * args.bleed_cm

(***************************************************************************)
(* The colour sampler on its own: the legacy mode with one scene, the main *)
(* document just opened, the image's blended base colour drawn from the    *)
(* whole grid of channel values.                                           *)
(***************************************************************************)
ColorGrid == {<<r, g, b>> : r \in 0..ColorScale, g \in 0..ColorScale, b \in 0..ColorScale}

ColorArgs == {a \in RunArgs : ~a.book_json /\ ~a.split_cover /\ ~a.split_back}

ColorInit ==
    \E a \in ColorArgs, image \in {BadImage} \cup GoodImages(ColorGrid) :
        /\ FONT_PRIMARY = RegisteredFont(TRUE)
        /\ args = a
        /\ book_data = NoManifest
        /\ files = Files(FALSE, FALSE, TRUE, <<image>>, TRUE, 1)
        /\ sample_size = SquareSample
        /\ pc = "scenes"
        /\ exit_status = NoneVal
        /\ cover_image_path = NoPath
        /\ back_image_path = NoPath
        /\ scene_images = <<>>
        /\ trim_width_cm = DefaultTrim
        /\ trim_height_cm = DefaultTrim
        /\ geom = ComputedGeom
        /\ main_pdf = OpenPdf(geom.final_width_cm, geom.final_height_cm)
        /\ cover_pdf = NoPdf /\ back_pdf = NoPdf
        /\ total_pages = 2 /\ page_counter = 0
        /\ stdout_mr = Emit(<<>>, Line("PDFTOTAL", 0, 2))
        /\ idx = 1 /\ half = 1
        /\ color_cache = <<>> /\ decodes = <<>>
        /\ futures = <<>> /\ task_result = <<>>
        /\ fit = NoFit

ColorNext == SceneTextPage \/ SceneImagePage \/ SaveMain

SpecColor == ColorInit /\ [][ColorNext]_vars

\* lum >= 0.25
LumAtLeastQuarter(c) == 4 * LumNum(c) >= 10000 * c.den

ChannelsAtMostOne(c) == c.r <= c.den /\ c.g <= c.den /\ c.b <= c.den

SampledColor(path) ==
    Color(ImageAt(path).rgb[1], ImageAt(path).rgb[2], ImageAt(path).rgb[3], ColorScale)

\* C5: whenever the sampled colour of a decoded image has luminance below
\* 0.25, the colour extract_bg_colors returns and caches for it has luminance
\* at least 0.25 and no channel above 1.0.
C5_MinimumLuminance ==
    \A path \in DOMAIN color_cache :
        (ImageAt(path).readable /\ TooDark(SampledColor(path))) =>
            /\ LumAtLeastQuarter(color_cache[path])
            /\ ChannelsAtMostOne(color_cache[path])

(***************************************************************************)
(* Text fitter: wrap_and_draw_text (lines 271-319).                        *)
(*                                                                         *)
(* A text block is the sequence of its paragraphs (tb.split('\n')), a      *)
(* paragraph the sequence of its words (paragraph.split()), a word its     *)
(* number of glyphs.  A line is the sequence of its words; the blank       *)
(* marker '' is the empty line.  Vertical positions are in 1/2000 pt.      *)
(***************************************************************************)
GlyphWidth == 500       \* width of a glyph of a word, in 1/1000 of the font size
SpaceWidth == 250       \* width of the space between two words of a line

RECURSIVE SumSeq(_)
SumSeq(s) == IF s = <<>> THEN 0 ELSE s[1] + SumSeq(Tail(s))

\* 1000 * c.stringWidth(line, font_name, font_size) / font_size
LineWidth(line) ==
    IF line = <<>> THEN 0
    ELSE GlyphWidth * SumSeq(line) + SpaceWidth * (Len(line) - 1)

\* c.stringWidth(candidate, font_name, font_size) <= max_width,
\* with max_width = page_width * 0.7
WithinWidth(line, font_size, page_width) == LineWidth(line) * font_size <= page_width * 700

\* The loop over the words of a paragraph (lines 280-288): the lines flushed
\* so far and the line being filled.
RECURSIVE WrapWords(_, _, _, _, _)
WrapWords(words, line, lines, font_size, page_width) ==
    IF words = <<>>
    THEN IF line # <<>> THEN Append(lines, line) ELSE lines
    ELSE IF WithinWidth(Append(line, words[1]), font_size, page_width)
         THEN WrapWords(Tail(words), Append(line, words[1]), lines, font_size, page_width)
         ELSE WrapWords(Tail(words), <<words[1]>>,
                        IF line # <<>> THEN Append(lines, line) ELSE lines,
                        font_size, page_width)

\* The loop over the paragraphs (lines 278-291): each paragraph's lines,
\* then a blank marker.
RECURSIVE WrapParagraphs(_, _, _, _)
WrapParagraphs(paragraphs, lines, font_size, page_width) ==
    IF paragraphs = <<>> THEN lines
    ELSE WrapParagraphs(Tail(paragraphs),
                        Append(WrapWords(paragraphs[1], <<>>, lines, font_size, page_width), <<>>),
                        font_size, page_width)

DropTrailingBlank_m(lines) == lines

\* Lines 292-294: one trailing blank marker is dropped.
DropTrailingBlank(lines) ==
    IF lines # <<>> /\ lines[Len(lines)] = <<>>
    THEN SubSeq(lines, 1, Len(lines) - 1)
    ELSE lines

wrap_block(tb, font_size, page_width) ==
    DropTrailingBlank(WrapParagraphs(tb, <<>>, font_size, page_width))

Gaps(lines) == Cardinality({i \in 1..Len(lines) : lines[i] = <<>>})

\* 1000 * total_height, with line_spacing = font_size * 1.35:
\* len(effective) * line_spacing - (line_spacing * 0.3 * gaps)
TotalHeight(lines, font_size) == font_size * 135 * (10 * Len(lines) - 3 * Gaps(lines))

\* total_height <= page_height * 0.85
FitsHeight(lines, font_size, page_height) ==
    TotalHeight(lines, font_size) <= 850 * page_height

\* "or font_size < 14"
BelowFloor(font_size) == font_size < FontFloor

\* One pass of the while loop (lines 296-304).
FitIterate ==
    /\ fit.pc = "loop"
    /\ LET lines == wrap_block(fit.text, fit.font_size, fit.page_width)
       IN  IF FitsHeight(lines, fit.font_size, fit.page_height) \/ BelowFloor(fit.font_size)
           THEN fit' = [fit EXCEPT !.lines = lines, !.pc = "draw"]
           ELSE fit' = [fit EXCEPT !.lines = lines, !.font_size = @ - FontStep]
    /\ UNCHANGED <<inputVars, pc, exit_status, pathVars, trimVars, geom, docVars,
                   progressVars, loopVars, cacheVars, poolVars>>

\* 2000 * y_cursor before the first line (line 311)
FirstBaseline(lines, font_size, page_height) ==
    1000 * page_height + TotalHeight(lines, font_size) - 2700 * font_size

\* 2000 * the advance of y_cursor over one line (lines 313-319)
LineAdvance(line, font_size) == IF line = <<>> THEN 810 * font_size ELSE 2700 * font_size

RECURSIVE DrawLines(_, _, _, _)
DrawLines(lines, y, font_size, drawn) ==
    IF lines = <<>> THEN [drawn |-> drawn, y_cursor |-> y]
    ELSE DrawLines(Tail(lines), y - LineAdvance(lines[1], font_size), font_size,
                   IF lines[1] = <<>> THEN drawn
                   ELSE Append(drawn, [line |-> lines[1], y |-> y]))

\* Lines 306-319: setFont and the drawing loop.
FitDraw ==
    /\ fit.pc = "draw"
    /\ LET d == DrawLines(fit.lines, FirstBaseline(fit.lines, fit.font_size, fit.page_height),
                          fit.font_size, <<>>)
       IN  fit' = [fit EXCEPT !.drawn = d.drawn, !.y_cursor = d.y_cursor, !.pc = "drawn"]
    /\ UNCHANGED <<inputVars, pc, exit_status, pathVars, trimVars, geom, docVars,
                   progressVars, loopVars, cacheVars, poolVars>>

(***************************************************************************)
(* The text fitter on its own: a call of wrap_and_draw_text for the text   *)
(* page of the first scene, over a grid of texts and page rectangles.      *)
(***************************************************************************)
WordLengths == {1, 4}

Paragraphs == UNION {[1..n -> WordLengths] : n \in 0..MaxWords}

Texts == UNION {[1..n -> Paragraphs] : n \in 1..MaxParas}

PageWidths == {10, 40}

PageHeights == {10, 20, 25, 40, 60, 200}

FitInit ==
    \E text \in Texts, page_width \in PageWidths, page_height \in PageHeights :
        /\ FONT_PRIMARY = RegisteredFont(TRUE)
        /\ args \in ColorArgs /\ ~args.mr
        /\ book_data = NoManifest
        /\ files = Files(FALSE, FALSE, TRUE, <<BadImage>>, TRUE, 1)
        /\ sample_size = SquareSample
        /\ pc = "scenes"
        /\ exit_status = NoneVal
        /\ cover_image_path = NoPath
        /\ back_image_path = NoPath
        /\ scene_images = <<>>
        /\ trim_width_cm = DefaultTrim
        /\ trim_height_cm = DefaultTrim
        /\ geom = ComputedGeom
        /\ main_pdf = OpenPdf(geom.final_width_cm, geom.final_height_cm)
        /\ cover_pdf = NoPdf /\ back_pdf = NoPdf
        /\ total_pages = 2 /\ page_counter = 0
        /\ stdout_mr = <<>>
        /\ idx = 1 /\ half = 1
        /\ color_cache = <<>> /\ decodes = <<>>
        /\ futures = <<>> /\ task_result = <<>>
        /\ fit = [pc |-> "loop", text |-> text, page_width |-> page_width,
                  page_height |-> page_height, font_size |-> base_font_size,
                  lines |-> <<>>, drawn |-> <<>>, y_cursor |-> 0]

FitNext == FitIterate \/ FitDraw

SpecFit == FitInit /\ [][FitNext]_vars

\* C4: the font size wrap_and_draw_text sets for drawing is at least 14.
C4_FontFloor == fit.pc \in {"draw", "drawn"} => fit.font_size >= FontFloor

\* base, base-2, ... down to the floor
FontSizes == {s \in FontFloor..base_font_size : (base_font_size - s) % FontStep = 0}

FitsAt(s) == FitsHeight(wrap_block(fit.text, s, fit.page_width), s, fit.page_height)

\* The largest size of the sequence at which the block fits, the floor when
\* it fits at none.
LargestFitting ==
    IF \E s \in FontSizes : FitsAt(s)
    THEN CHOOSE s \in FontSizes : FitsAt(s) /\ \A t \in FontSizes : FitsAt(t) => t <= s
    ELSE FontFloor

\* C10: the font size chosen is the largest of base, base-2, ... down to the
\* floor at which the wrapped block is at most 85% of the rectangle height,
\* and the floor when the block fits at none of them.
C10_LargestFitting == fit.pc \in {"draw", "drawn"} => fit.font_size = LargestFitting

(***************************************************************************)
(* Claims about the explicit page size, checked under SpecTrim.            *)
(***************************************************************************)
WidthGiven == args.page_width_cm # NoneVal

HeightGiven == args.page_height_cm # NoneVal

\* C11: when --page-width-cm or --page-height-cm is given the trim is the
\* explicit one, whatever --auto-trim and the sample image are: both values
\* when both are given, the one value for both sides when only one is given.
C11_ExplicitOverride ==
    (pc # "trim" /\ (WidthGiven \/ HeightGiven)) =>
        /\ (WidthGiven /\ HeightGiven) =>
             /\ trim_width_cm = args.page_width_cm
             /\ trim_height_cm = args.page_height_cm
        /\ (WidthGiven /\ ~HeightGiven) =>
             /\ trim_width_cm = args.page_width_cm
             /\ trim_height_cm = args.page_width_cm
        /\ (~WidthGiven /\ HeightGiven) =>
             /\ trim_width_cm = args.page_height_cm
             /\ trim_height_cm = args.page_height_cm

(***************************************************************************)
(* Whole runs over a grid of geometry options: both modes, at most one     *)
(* scene, with and without cover and back images.                          *)
(***************************************************************************)
GeomRunArgs ==
    [book_json : BOOLEAN, mr : {FALSE}, split_cover : BOOLEAN, split_back : {FALSE},
     auto_trim : BOOLEAN, page_width_cm : {NoneVal, 200}, page_height_cm : {NoneVal, 150},
     square_size_cm : {190}, rect_width_cm : {210}, rect_height_cm : {148},
     bleed_cm : {0, 5}, cover_width_cm : {NoneVal, 250}, cover_height_cm : {NoneVal, 180},
     back_width_cm : {NoneVal, 260}, back_height_cm : {NoneVal, 170}]

GeomRunSamples(a) ==
    IF a.auto_trim THEN {Sample(FALSE, 0, 0), Sample(TRUE, 150, 100)} ELSE {SquareSample}

GeomRunInit ==
    \E a \in GeomRunArgs :
      \E ss \in GeomRunSamples(a), n \in 0..1 :
        LET scene == [i \in 1..n |-> ImageFile(TRUE, TRUE, <<0, 0, ColorScale>>)]
        IN  IF a.book_json
            THEN \E cover \in BOOLEAN, back \in BOOLEAN :
                   Start(a, Manifest(TRUE, RequiredFields, TRUE, n),
                         Files(cover, back, TRUE, scene, FALSE, 0), ss)
            ELSE /\ ~a.split_cover
                 /\ Start(a, NoManifest, Files(FALSE, FALSE, TRUE, scene, n > 0, n), ss)

SpecGeom == GeomRunInit /\ [][Next]_vars

\* The three geometries have been computed (lines 248-268 have run).
GeomComputed ==
    /\ pc \notin {"load", "collect", "trim", "dims"}
    /\ ~(pc = "exited" /\ args.book_json)

FinalIsTrimPlusBleed ==
    /\ geom.final_width_cm = trim_width_cm + 2 * args.bleed_cm
    /\ geom.final_height_cm = trim_height_cm + 2 * args.bleed_cm
    /\ geom.cover_final_width_cm = geom.cover_width_cm + 2 * args.bleed_cm
    /\ geom.cover_final_height_cm = geom.cover_height_cm + 2 * args.bleed_cm
    /\ geom.back_final_width_cm = geom.back_width_cm + 2 * args.bleed_cm
    /\ geom.back_final_height_cm = geom.back_height_cm + 2 * args.bleed_cm

PageSizesFollowGeom ==
    /\ main_pdf.state # "none" =>
         main_pdf.pagesize = <<geom.final_width_cm, geom.final_height_cm>>
    /\ cover_pdf.state # "none" =>
         cover_pdf.pagesize = <<geom.cover_final_width_cm, geom.cover_final_height_cm>>
    /\ back_pdf.state # "none" =>
         back_pdf.pagesize = <<geom.back_final_width_cm, geom.back_final_height_cm>>

\* C12: for the book, the cover and the back the final size is the trim plus
\* twice the one bleed of the run; once computed, trim, bleed and the three
\* geometries never change, and every document (so every page of the main
\* document) has the final size of its geometry.
C12_Geometry ==
    /\ [](GeomComputed => (FinalIsTrimPlusBleed /\ PageSizesFollowGeom))
    /\ [][GeomComputed =>
            /\ geom' = geom
            /\ trim_width_cm' = trim_width_cm
            /\ trim_height_cm' = trim_height_cm
            /\ args' = args
            /\ main_pdf.state # "none" => main_pdf'.pagesize = main_pdf.pagesize]_vars

C12_Witness ==
    /\ pc = "done"
    /\ args.book_json
    /\ args.bleed_cm = 5
    /\ main_pdf.pagesize = <<210, 160>>
    /\ Len(main_pdf.pages) >= 4
    /\ cover_pdf.state = "saved" /\ cover_pdf.pagesize = <<260, 190>>
    /\ back_pdf.state = "saved" /\ back_pdf.pagesize = <<270, 180>>


(***************************************************************************)
(* Whole runs under every degraded condition the script survives: the TTF  *)
(* font that does not register (lines 21-26), the auto-trim sample that is *)
(* absent or cannot be opened (lines 219-236), the scene image whose       *)
(* sampling raises (lines 96-100) and the back document that cannot be     *)
(* written (lines 412-420).  The interpreter runs the main thread to the   *)
(* end of the script and the executor's "with" block returns once every    *)
(* submitted call has run, so each enabled step is eventually taken.       *)
(***************************************************************************)
LiveArgs ==
    [book_json : BOOLEAN, mr : BOOLEAN, split_cover : BOOLEAN, split_back : {FALSE},
     auto_trim : BOOLEAN, page_width_cm : {NoneVal}, page_height_cm : {NoneVal},
     square_size_cm : {190}, rect_width_cm : {210}, rect_height_cm : {148},
     bleed_cm : {5}, cover_width_cm : {NoneVal}, cover_height_cm : {NoneVal},
     back_width_cm : {NoneVal}, back_height_cm : {NoneVal}]

\* A sample that Image.open rejects and a landscape one.
LiveSamples(a) ==
    IF a.auto_trim THEN {Sample(FALSE, 0, 0), Sample(TRUE, 150, 100)} ELSE {SquareSample}

LiveImages == {MissingImage, BadImage, ImageFile(TRUE, TRUE, <<0, 0, ColorScale>>)}

LiveInit ==
    \E a \in LiveArgs, registers \in BOOLEAN :
      \E ss \in LiveSamples(a), n \in 0..MaxScenes :
        \E scene \in [1..n -> LiveImages] :
          IF a.book_json
          THEN \E cover \in BOOLEAN, back \in BOOLEAN, back_writable \in BOOLEAN :
                 /\ back \/ back_writable
                 /\ StartWith(a, Manifest(TRUE, RequiredFields, TRUE, n),
                              Files(cover, back, back_writable, scene, FALSE, 0),
                              ss, RegisteredFont(registers))
          ELSE /\ ~a.split_cover
               /\ \A i \in 1..n : scene[i].exists
               /\ \E t \in {n, 0} :
                    StartWith(a, NoManifest, Files(FALSE, FALSE, TRUE, scene, n > 0, t),
                              ss, RegisteredFont(registers))

SpecLive == LiveInit /\ [][Next]_vars /\ WF_vars(Next)

RunDone ==
    /\ pc = "done"
    /\ exit_status = 0
    /\ main_pdf.state = "saved"
    /\ total_pages = ClosedFormTotal
    /\ Len(main_pdf.pages) = total_pages
    /\ args.mr => /\ stdout_mr # <<>>
                  /\ stdout_mr[Len(stdout_mr)] = Line("PDFDONE", 0, 0)

\* C13: a run that passes validation reaches the end of the script with the
\* main document saved with all total_pages pages and, with --mr, PDFDONE as
\* the last line, whichever of the font registration, the auto-trim sample,
\* the colour sampling of a scene image and the back document fails.
C13_ReachesDone == (~ValidationFails) ~> RunDone

\* The end of a JSON run in which all four degraded conditions happened.
C13_Witness ==
    /\ RunDone
    /\ args.book_json /\ args.mr /\ args.auto_trim
    /\ FONT_PRIMARY = BuiltinFont
    /\ ~sample_size.readable
    /\ trim_width_cm = DefaultTrim
    /\ back_pdf.state = "failed"
    /\ book_data.n_scenes >= 2
    /\ \E i \in 1..book_data.n_scenes :
         /\ files.scene[i] = BadImage
         /\ color_cache[ImagePathOf(i)] = FallbackGray


(***************************************************************************)
(* Pre-extraction and the pages of the main document (lines 431-464).      *)
(***************************************************************************)
\* The "with ThreadPoolExecutor" block of lines 451-456 has been left.
PoolJoined ==
    /\ pc \in {"scenes", "closing", "save", "done"}
    /\ DOMAIN futures = 1..Len(scene_images)
    /\ \A i \in DOMAIN futures : futures[i] = "done"

PageLines == {i \in 1..Len(stdout_mr) : stdout_mr[i].tag = "PDFPAGE"}

ScenePages == {k \in 1..Len(main_pdf.pages) : main_pdf.pages[k].kind \in {"text", "image"}}

\* The scene loop neither samples an image nor writes the cache.
SceneLoopOnlyHitsCache ==
    /\ (args.book_json /\ pc = "scenes") => CacheHit(TextColorSource(idx))
    /\ [][(args.book_json /\ pc = "scenes") =>
            (decodes' = decodes /\ color_cache' = color_cache)]_vars

\* In JSON mode every worker task is joined before the first page of the
\* main document is committed and before the first PDFPAGE line, and the
\* scene loop only hits the cache.
C14_Original ==
    /\ []((args.book_json /\ (main_pdf.pages # <<>> \/ PageLines # {})) => PoolJoined)
    /\ SceneLoopOnlyHitsCache

\* C14: in JSON mode every pre-extraction task is joined before the first
\* page of the scene loop is committed and before the PDFPAGE line of such a
\* page is printed, and every extract_bg_colors call of the scene loop is a
\* cache hit; the cover page and the short-description page of the main
\* document are committed, with their PDFPAGE lines, before the tasks are
\* submitted.
C14_JoinedBeforeScenePages ==
    /\ [](args.book_json =>
            /\ (ScenePages # {} \/ Len(stdout_mr) > 1 + PreamblePages) => PoolJoined
            /\ pc \in {"submit", "pool"} =>
                 /\ Len(main_pdf.pages) = PreamblePages /\ ScenePages = {}
                 /\ args.mr => Cardinality(PageLines) = PreamblePages)
    /\ SceneLoopOnlyHitsCache

\* The text page of the second scene is due, after a pool of two tasks.
C14_Witness ==
    /\ args.book_json /\ args.mr
    /\ pc = "scenes" /\ idx = 2 /\ TextPageDue
    /\ Len(futures) = 2
    /\ PoolJoined
    /\ ScenePages # {}
    /\ CacheHit(TextColorSource(idx))


(***************************************************************************)
(* Vertical placement of the fitted block (lines 306-319).                 *)
(***************************************************************************)
\* 2000 * the distance y_cursor has moved over the whole drawing loop.
CursorAdvance == FirstBaseline(fit.lines, fit.font_size, fit.page_height) - fit.y_cursor

\* 2000 * the space between the top of the page rectangle and the top of the
\* first line, one line spacing above the first baseline.
MarginAbove ==
    2000 * fit.page_height
        - (FirstBaseline(fit.lines, fit.font_size, fit.page_height) + 2700 * fit.font_size)

\* 2000 * the space between the bottom of the last line, where the cursor
\* would put the top of a next line, and the bottom of the page rectangle.
MarginBelow == fit.y_cursor + 2700 * fit.font_size

\* C15: once a text is drawn, the distance the cursor has advanced over all
\* lines equals the total block height used to fit and to centre the block,
\* and the margin above the block equals the margin below it.
C15_BlockCentred ==
    fit.pc = "drawn" =>
        /\ CursorAdvance = 2 * TotalHeight(fit.lines, fit.font_size)
        /\ MarginAbove = MarginBelow

\* What the drawing loop does for texts of one paragraph.
C15_SingleParagraphCentred ==
    (fit.pc = "drawn" /\ Gaps(fit.lines) = 0) =>
        /\ CursorAdvance = 2 * TotalHeight(fit.lines, fit.font_size)
        /\ MarginAbove = MarginBelow


(***************************************************************************)
(* A scene image whose sampling raises inside a pool worker (lines 96-100  *)
(* and 451-456).                                                           *)
(***************************************************************************)
\* Task i has run the except branch of extract_bg_colors.
WorkerFailed(i) ==
    /\ args.book_json
    /\ i \in DOMAIN futures
    /\ futures[i] \in {"computed", "done"}
    /\ ~ImageAt(TaskPath(i)).readable

TextPagesOf(i) ==
    {k \in 1..Len(main_pdf.pages) :
        main_pdf.pages[k].kind = "text" /\ main_pdf.pages[k].scene = i}

\* Every task has run, and the images that can be sampled have their own
\* colour in the cache.
SiblingsCompleted ==
    /\ PoolJoined
    /\ \A j \in DOMAIN futures :
         ImageAt(TaskPath(j)).readable =>
           /\ CacheHit(TaskPath(j))
           /\ color_cache[TaskPath(j)] = ExtractValue(TaskPath(j))
           /\ DecodeCount(TaskPath(j)) = 1

\* The image of a failed task is sampled a second time when the scene loop
\* draws the text page of its scene.
C16_Original ==
    \A i \in DOMAIN futures :
        (WorkerFailed(i) /\ TextPagesOf(i) # {}) => DecodeCount(TaskPath(i)) >= 2

\* C16: a scene image whose sampling fails inside a pre-extraction worker
\* does not stop the other workers or the run; the failure is caught inside
\* extract_bg_colors, which stores the fallback gray for that image, and the
\* scene loop draws the text page of the scene with that cached gray without
\* sampling the image again.
C16_FallbackCached ==
    /\ [](\A i \in DOMAIN futures :
            WorkerFailed(i) =>
              /\ DecodeCount(TaskPath(i)) = 1
              /\ futures[i] = "done" =>
                   /\ CacheHit(TaskPath(i))
                   /\ color_cache[TaskPath(i)] = FallbackGray
              /\ \A k \in TextPagesOf(i) : main_pdf.pages[k].bg = FallbackGray)
    /\ (\E i \in DOMAIN futures : WorkerFailed(i)) ~> (RunDone /\ SiblingsCompleted)

\* The end of a run whose first scene image failed in its worker and whose
\* second one was sampled.
C16_Witness ==
    /\ RunDone
    /\ args.book_json
    /\ Len(futures) >= 2
    /\ WorkerFailed(1)
    /\ ImageAt(TaskPath(2)).readable
    /\ SiblingsCompleted
    /\ TextPagesOf(1) # {}
    /\ DecodeCount(TaskPath(1)) = 1


(***************************************************************************)
(* The lines wrap_block returns (lines 276-294), read off the fitter: the  *)
(* lines it holds were wrapped at the font size of its last iteration.     *)
(***************************************************************************)
HasWrapped == fit.pc \in {"draw", "drawn"} \/ (fit.pc = "loop" /\ fit.font_size < base_font_size)

\* The font size wrap_block last ran with: a failed iteration has already
\* taken its step down.
WrappedSize == IF fit.pc = "loop" THEN fit.font_size + FontStep ELSE fit.font_size

RECURSIVE Concat(_)
Concat(seqs) == IF seqs = <<>> THEN <<>> ELSE seqs[1] \o Concat(Tail(seqs))

WidthBounded ==
    \A i \in 1..Len(fit.lines) :
        fit.lines[i] # <<>> =>
            \/ WithinWidth(fit.lines[i], WrappedSize, fit.page_width)
            \/ Len(fit.lines[i]) = 1

WordsInOrder == Concat(fit.lines) = Concat(fit.text)

EmptyTextNoLines == fit.text = <<(<<>>)>> => fit.lines = <<>>

NoTrailingBlank == fit.lines = <<>> \/ fit.lines[Len(fit.lines)] # <<>>

EndsWithEmptyParagraph == Len(fit.text) >= 2 /\ fit.text[Len(fit.text)] = <<>>

\* The lines are within the width unless a single over-wide word, keep the
\* words in order, never end with a blank marker, and are none for the
\* empty text.
C17_Original ==
    HasWrapped => (WidthBounded /\ WordsInOrder /\ NoTrailingBlank /\ EmptyTextNoLines)

\* C17: for every text and font size, every non-blank line wrap_block
\* returns is within rectangleWidth x maxWidthRatio unless it is one single
\* over-wide word alone on its line; the words of the non-blank lines read in
\* order are the words of the input; exactly one blank marker separates
\* consecutive paragraphs, the one after the last paragraph being dropped, so
\* the lines end with a blank marker exactly when the text has several
\* paragraphs and its last one has no word; the empty text yields no line.
C17_WrapBlock ==
    HasWrapped =>
        /\ fit.lines = wrap_block(fit.text, WrappedSize, fit.page_width)
        /\ WidthBounded
        /\ WordsInOrder
        /\ Gaps(fit.lines) = Len(fit.text) - 1
        /\ ~NoTrailingBlank <=> EndsWithEmptyParagraph
        /\ EmptyTextNoLines

\* A four-glyph word wider than the line stands alone, followed by the blank
\* marker of an empty second paragraph, at a font size below the first.
C17_Witness ==
    /\ fit.pc = "draw"
    /\ fit.font_size < base_font_size
    /\ fit.text = <<(<<4>>), (<<>>)>>
    /\ fit.lines = <<(<<4>>), (<<>>)>>
    /\ ~WithinWidth(fit.lines[1], fit.font_size, fit.page_width)

=============================================================================
